---- MODULE Spec2Model ----
(***************************************************************************)
(* A model of the gesture / pointer / animation core of the christmas-tree *)
(* scene:                                                                  *)
(*   - detectGesture and onResults of hooks/useHandGesture.ts,             *)
(*   - useMouseFallback of types/christmas.ts,                             *)
(*   - the gsap position tweens of ParticleSystem.tsx,                     *)
(*   - the spring integration of PhotoCards (GestureIndicator.tsx), the    *)
(*     loading of their textures and what a frame writes to their mesh,    *)
(*   - the effect of useHandGesture that starts and stops tracking,        *)
(*   - CameraController (part_002),                                        *)
(*   - the position generators of ParticleSystem.tsx and PhotoCards.       *)
(*                                                                         *)
(* Units.  Landmark coordinates are normalised image coordinates; the      *)
(* model keeps them in hundredths (0.06 is 6).  Times are milliseconds.    *)
(* Each component has its own specification over its own variables; the    *)
(* variables of the other components are pinned by its Init and left       *)
(* UNCHANGED by its actions.                                               *)
(***************************************************************************)
EXTENDS Integers, Sequences, FiniteSets, TLC

VARIABLES
    \* ---- detectGesture applied as a pure function
    landmarks,      \* the argument of detectGesture
    detected,       \* its result, "pending" before the call
    \* ---- useHandGesture: the state reached through onResults
    state,          \* HandGestureState (useState)
    lastGestureRef, \* lastGestureRef.current
    nResults,       \* the number of onResults calls so far
    lastCall,       \* history: the last onResults call and what it did
    run,            \* history: the current run of equal classifications
    \* ---- useMouseFallback
    enabled,        \* the enabled prop, with the listeners it attaches
    currentState,   \* the currentState prop (the scene mode)
    isDragging,     \* useState
    mousePosition,  \* useState
    lastClickRef,   \* lastClickRef.current
    dragStartRef,   \* dragStartRef.current
    rotationRef,    \* rotationRef.current, in steps of 0.005 rad
    now,            \* Date.now()
    stateChange,    \* the argument of the step's onStateChange call, or Null
    orbitChange,    \* the argument of the step's onOrbitChange call, or Null
    presses,        \* history: the presses handled so far
    moves,          \* the move the step handled and what it met, or Null
    galaxySum,      \* history: the sum of the deltas of the orbiting moves
    \* ---- one element of the scene: ParticleSystem.tsx, PhotoCards
    element,        \* "particle", "gem", "tetra" or "card"
    sceneState,     \* the state prop of the scene components
    focusedIndex,   \* the focusedIndex prop of PhotoCards, or Null
    heap,           \* the element's arrays and vectors, by object
    tweens,         \* the live gsap tweens of the element, in render order
    scale,          \* card.scale and card.scaleVelocity
    sinceRetarget,  \* history: integrated ms since the card's target changed
    errorAtRetarget,\* history: the card's position error when it changed
    changes,        \* history: changes of the element's target so far
    hitches,        \* history: frame hitches so far
    frame,          \* what the step's useFrame of PhotoCards used, or Null
    lastFocus,      \* history: focusedIndex before it last changed
    cardTime,       \* card.time of card 0, in ms
    mesh,           \* what the step's useFrame wrote to the mesh, or Null
    \* ---- useHandGesture: the effect that starts and stops tracking
    trackEnabled,   \* the enabled prop of useHandGesture
    runs,           \* the runs of the effect, each with its initMediaPipe
    videoRef,       \* videoRef.current: the run that made the video, or Null
    handsRef,       \* handsRef.current
    cameraRef,      \* cameraRef.current
    body,           \* the video elements in document.body, by run
    warnings,       \* the console.warn calls so far
    propagated,     \* an exception has left initMediaPipe uncaught
    \* ---- PhotoCards: the textures of the cards
    photoData,      \* photoData: the url of every card
    cardDataRef,    \* cardDataRef.current: textureUrl and texture per card
    loads,          \* the loader.load calls that have not completed
    completed,      \* the load the step completed, or Null
    \* ---- CameraController
    cameraProps,    \* the props state, orbitRotation, handPosition
    cameraPosition, \* positionRef.current
    cameraTarget,   \* targetX, targetY, targetZ of the step's frame, or Null
    cameraFrames,   \* the number of frames so far
    \* ---- the position generators applied as functions
    genCall,        \* the generator called and its arguments, or Null
    genFirst,       \* the position the first call returned, or Null
    genSecond       \* the position a second call returned, or Null

classifyVars == <<landmarks, detected>>
hookVars == <<state, lastGestureRef, nResults, lastCall, run>>
pointerVars == <<enabled, currentState, isDragging, mousePosition, lastClickRef,
                 dragStartRef, rotationRef, now, stateChange, orbitChange, presses,
                 moves, galaxySum>>
sceneVars == <<element, sceneState, focusedIndex, heap, tweens, scale,
               sinceRetarget, errorAtRetarget, changes, hitches, frame,
               lastFocus, cardTime, mesh>>
trackingVars == <<trackEnabled, runs, videoRef, handsRef, cameraRef, body,
                  warnings, propagated>>
textureVars == <<photoData, cardDataRef, loads, completed>>
cameraVars == <<cameraProps, cameraPosition, cameraTarget, cameraFrames>>
generatorVars == <<genCall, genFirst, genSecond>>
vars == <<classifyVars, hookVars, pointerVars, sceneVars, trackingVars,
          textureVars, cameraVars, generatorVars>>

----------------------------------------------------------------------------
(* Bounds of the model *)

\* the longest landmark list handed to detectGesture
MaxLandmarks == 22
\* the number of tracking results delivered to onResults in one behaviour
MaxResults == 5
\* Date.now() when the page starts, in ms
StartTime == 1000
\* the clock advances in steps of TickMs, MaxTicks times in one behaviour
TickMs == 100
MaxTicks == 4
\* the presses of one streak (each less than 300 ms after the one before)
MaxStreak == 4
\* the orbit rotation stays within MaxRotation steps of 0.005 rad
MaxRotation == 2
\* the mode changes seen by one particle, gem or spiral element
MaxChanges == 2
\* the target changes seen by one photo card
MaxRetargets == 1
\* the frame hitches seen by one photo card
MaxHitches == 1
\* the runs of the tracking effect (enable, or a new onResults) in one
\* behaviour
MaxRuns == 2
\* the photo cards shown, and the texture loads pending at once
MaxPhotos == 2
MaxLoads == 3
\* the frame delta of a regular frame and of a frame hitch, in ms
FrameMs == 16
HitchMs == 250
\* the integrated time after which a card is taken to have settled, in ms,
\* and the position error (0.001 units) and speed (0.001 units/s) of rest
SettleMs == 1500
Eps == 50
\* coordinate 0 of the element's tree and galaxy targets, in 0.001 units
TreePos == 500
GalaxyPos == 1500

----------------------------------------------------------------------------
(* Types of types/christmas.ts *)

TreeState == {"tree", "galaxy", "focus"}
GestureType == {"none", "fist", "open", "pinch", "pointing"}

----------------------------------------------------------------------------
(* Landmark frames.  A landmark list is a JavaScript array: index i of the  *)
(* source is element i + 1 of the sequence, and an index at or past the    *)
(* length reads undefined.  A missing list (null / undefined) is           *)
(* [present |-> FALSE].                                                    *)

Pt(px, py, pz) == [x |-> px, y |-> py, z |-> pz]

NoLandmarks == [present |-> FALSE, points |-> <<>>]
Landmarks(points) == [present |-> TRUE, points |-> points]

\* landmarks[i] is undefined
Undefined(lm, i) == i >= Len(lm.points)
\* landmarks[i], for a defined index
At(lm, i) == lm.points[i + 1]

\* the y coordinate of every knuckle (MCP) of the generated frames
McpY == 50

\* A frame of len points: the thumb tip, the index tip and the y of the
\* three other finger tips are given, every other landmark lies on y = McpY.
MkFrame(len, thumbTip, indexTip, middleY, ringY, pinkyY) ==
    Landmarks([i \in 1..len |->
        CASE i - 1 = 4  -> thumbTip
          [] i - 1 = 8  -> indexTip
          [] i - 1 = 12 -> Pt(40 + i, middleY, 0)
          [] i - 1 = 16 -> Pt(40 + i, ringY, 0)
          [] i - 1 = 20 -> Pt(40 + i, pinkyY, 0)
          [] OTHER      -> Pt(40 + i, McpY, 0)])

\* tip heights: above the knuckle (extended), level with it, below it
TipYs == {McpY - 10, McpY, McpY + 10}
\* index tips: extended, level, flexed
IndexTips == {Pt(50, McpY - 5, 0), Pt(50, McpY, 0), Pt(50, McpY + 5, 0)}
\* thumb tips at distance 0, 5, under 6, exactly 6, over 6 (through z), far
ThumbTips == {Pt(50, McpY - 5, 0), Pt(50, McpY, 0), Pt(50, McpY + 1, 0),
              Pt(53, McpY - 1, 3), Pt(50, McpY, 4), Pt(10, McpY, 0)}

Frames ==
    {MkFrame(len, t, i, m, r, p) :
        len \in 0..MaxLandmarks, t \in ThumbTips, i \in IndexTips,
        m \in TipYs, r \in TipYs, p \in TipYs}

----------------------------------------------------------------------------
(* hooks/useHandGesture.ts *)

\* Math.sqrt on the hundredths grid: the floor of the root.  Every use of
\* it compares with a whole number of hundredths, where floor(sqrt n) < k
\* is sqrt n < k.
Sqrt(n) == CHOOSE r \in 0..175 : r * r <= n /\ (r + 1) * (r + 1) > n

\* A call that returns v, and a call that raises TypeError (a property read
\* of undefined).
Return(v) == [raised |-> FALSE, value |-> v]
TypeError == [raised |-> TRUE, value |-> "TypeError"]

calculateFingerDistance(lm, finger1, finger2) ==
    IF Undefined(lm, finger1) \/ Undefined(lm, finger2)
    THEN TypeError
    ELSE LET p1 == At(lm, finger1)
             p2 == At(lm, finger2)
         IN Return(Sqrt((p1.x - p2.x) * (p1.x - p2.x)
                        + (p1.y - p2.y) * (p1.y - p2.y)
                        + (p1.z - p2.z) * (p1.z - p2.z)))

\* the pinch threshold 0.06 of detectGesture, in hundredths
PinchThreshold == 6

\* tip.y < mcp.y of two landmarks
Extended(lm, tip, mcp) == At(lm, tip).y < At(lm, mcp).y

\* the landmarks detectGesture reads past its guard
GestureLandmarks == {0, 4, 5, 8, 9, 12, 13, 16, 17, 20}

\* the guard with its bound one too small
TooShortOffByOne(lm) == ~lm.present \/ Len(lm.points) < 20

\* the guard of detectGesture
TooShort(lm) == ~lm.present \/ Len(lm.points) < 21

\* the finger-count tests with the pointing test first
CountGesturePointingFirst(extendedCount, indexExtended, middleExtended, ringExtended, pinkyExtended) ==
    IF indexExtended /\ ~middleExtended /\ ~ringExtended /\ ~pinkyExtended
    THEN "pointing"
    ELSE IF extendedCount >= 3 THEN "open"
    ELSE IF extendedCount <= 1 THEN "fist"
    ELSE "none"

\* the order of the finger-count tests of detectGesture
CountGesture(extendedCount, indexExtended, middleExtended, ringExtended, pinkyExtended) ==
    IF extendedCount >= 3 THEN "open"
    ELSE IF extendedCount <= 1 THEN "fist"
    ELSE IF indexExtended /\ ~middleExtended /\ ~ringExtended /\ ~pinkyExtended
    THEN "pointing"
    ELSE "none"

\* the pinch test of detectGesture
IsPinch(pinchDist) == pinchDist < PinchThreshold

\* the landmarks whose y detectGesture reads after the pinch test
FingerLandmarks == {5, 8, 9, 12, 13, 16, 17, 20}

\* detectGesture with the pinch test moved behind the open-palm test
detectGestureOpenFirst(lm) ==
    IF TooShort(lm) THEN Return("none")
    ELSE LET pinchDist == calculateFingerDistance(lm, 4, 8)
             extendedCount ==
                 Cardinality({f \in {8, 12, 16, 20} : Extended(lm, f, f - 3)})
         IN IF extendedCount >= 3 THEN Return("open")
            ELSE IF IsPinch(pinchDist.value) THEN Return("pinch")
            ELSE Return(CountGesture(extendedCount, Extended(lm, 8, 5),
                                     Extended(lm, 12, 9), Extended(lm, 16, 13),
                                     Extended(lm, 20, 17)))

detectGesture(lm) ==
    IF TooShort(lm) THEN Return("none")
    ELSE LET pinchDist == calculateFingerDistance(lm, 4, 8)
         IN IF pinchDist.raised THEN TypeError
            ELSE IF IsPinch(pinchDist.value) THEN Return("pinch")
            ELSE IF \E i \in FingerLandmarks : Undefined(lm, i) THEN TypeError
            ELSE LET indexExtended == Extended(lm, 8, 5)
                     middleExtended == Extended(lm, 12, 9)
                     ringExtended == Extended(lm, 16, 13)
                     pinkyExtended == Extended(lm, 20, 17)
                     extendedCount ==
                         Cardinality({f \in {8, 12, 16, 20} :
                                         Extended(lm, f, f - 3)})
                 IN Return(CountGesture(extendedCount, indexExtended,
                                        middleExtended, ringExtended,
                                        pinkyExtended))

\* the landmark indices a call of detectGesture reads
detectGestureReads(lm) ==
    IF TooShort(lm) THEN {} ELSE GestureLandmarks

----------------------------------------------------------------------------
(* detectGesture as a pure function: Init draws the argument, Classify     *)
(* applies the function, NextFrame draws another argument.                 *)

Pending == [raised |-> FALSE, value |-> "pending"]

\* null, and a value that is not null
Null == <<>>
Some(v) == <<v>>

\* useState's initial HandGestureState; pinchDistance 1 is 100 hundredths
InitialState ==
    [gesture |-> "none", handPosition |-> Null,
     pinchDistance |-> 100, isTracking |-> FALSE]

NoCall == [results |-> <<>>, kind |-> "nothing", prev |-> "none",
           raised |-> FALSE, notified |-> Null]
NoRun == [gesture |-> "none", len |-> 0, prev |-> "none", notifs |-> 0]

HookIdle ==
    /\ state = InitialState
    /\ lastGestureRef = "none"
    /\ nResults = 0
    /\ lastCall = NoCall
    /\ run = NoRun

\* useMouseFallback as constructed and enabled
PointerIdle ==
    /\ enabled = TRUE
    /\ currentState = "tree"
    /\ isDragging = FALSE
    /\ mousePosition = [x |-> <<1, 2>>, y |-> <<1, 2>>]   \* 0.5, 0.5
    /\ lastClickRef = 0
    /\ dragStartRef = [x |-> 0, y |-> 0]
    /\ rotationRef = [x |-> 0, y |-> 0]
    /\ now = StartTime
    /\ stateChange = Null
    /\ orbitChange = Null
    /\ presses = [recordedAt |-> Null, prevAt |-> Null, kind |-> "none",
                  sinceRecorded |-> Null, sincePrev |-> Null, mode |-> "tree",
                  recordedKind |-> Null, againstKind |-> Null,
                  toggled |-> FALSE, afterToggle |-> FALSE,
                  streak |-> 0, toggles |-> 0, held |-> FALSE]
    /\ moves = Null
    /\ galaxySum = [x |-> 0, y |-> 0]

ClassifyIdle ==
    /\ landmarks = NoLandmarks
    /\ detected = Pending

\* tracking has never been enabled
TrackingIdle ==
    /\ trackEnabled = FALSE
    /\ runs = <<>>
    /\ videoRef = Null
    /\ handsRef = Null
    /\ cameraRef = Null
    /\ body = {}
    /\ warnings = 0
    /\ propagated = FALSE

\* PhotoCards before its first effect: cardDataRef.current is []
TexturesIdle ==
    /\ photoData = <<>>
    /\ cardDataRef = <<>>
    /\ loads = <<>>
    /\ completed = Null

\* CameraController before its first frame
CameraIdle ==
    /\ cameraProps = [state |-> "tree", orbitRotation |-> [x |-> 0, y |-> 0],
                      handPosition |-> Null]
    /\ cameraPosition = [x |-> 0, y |-> 2000, z |-> 12000]
    /\ cameraTarget = Null
    /\ cameraFrames = 0

\* no generator has been called
GeneratorsIdle ==
    /\ genCall = Null
    /\ genFirst = Null
    /\ genSecond = Null

\* the components that the specifications of the first four leave alone
OthersIdle ==
    /\ TrackingIdle
    /\ TexturesIdle
    /\ CameraIdle
    /\ GeneratorsIdle

\* no element of the scene is followed
SceneIdle ==
    /\ element = "none"
    /\ sceneState = "tree"
    /\ focusedIndex = Null
    /\ heap = <<>>
    /\ tweens = <<>>
    /\ scale = [scale |-> 0, scaleVelocity |-> 0]
    /\ sinceRetarget = 0
    /\ errorAtRetarget = 0
    /\ changes = 0
    /\ hitches = 0
    /\ frame = Null
    /\ lastFocus = Null
    /\ cardTime = 0
    /\ mesh = Null

InitClassify ==
    /\ landmarks \in Frames \cup {NoLandmarks}
    /\ detected = Pending
    /\ HookIdle
    /\ PointerIdle
    /\ SceneIdle
    /\ OthersIdle

Classify ==
    /\ detected = Pending
    /\ detected' = detectGesture(landmarks)
    /\ UNCHANGED <<landmarks, hookVars, pointerVars, sceneVars, trackingVars,
                   textureVars, cameraVars, generatorVars>>

NextClassify == Classify

SpecClassify == InitClassify /\ [][NextClassify]_vars

----------------------------------------------------------------------------
(* Claims about detectGesture, under SpecClassify *)

\* the frame handed to detectGesture has all 21 points
FullFrame == landmarks.present /\ Len(landmarks.points) >= 21

\* the square of the thumb-tip to index-tip distance, in hundredths squared
ThumbIndexSq ==
    LET p1 == At(landmarks, 4)
        p2 == At(landmarks, 8)
    IN (p1.x - p2.x) * (p1.x - p2.x) + (p1.y - p2.y) * (p1.y - p2.y)
       + (p1.z - p2.z) * (p1.z - p2.z)

\* the frame is a pinch: the distance is below 0.06
PinchFrame == ThumbIndexSq < PinchThreshold * PinchThreshold

\* finger with tip f is extended in the frame: tip y < knuckle y
FingerUp(f) == At(landmarks, f).y < At(landmarks, f - 3).y
UpCount == Cardinality({f \in {8, 12, 16, 20} : FingerUp(f)})

\* C1 (as claimed): a full frame that is no pinch, with the index finger
\* extended and the middle, ring and little finger not extended, is
\* classified 'pointing'.
C1_IndexOnlyIsPointing ==
    (/\ detected # Pending
     /\ FullFrame
     /\ ~PinchFrame
     /\ FingerUp(8) /\ ~FingerUp(12) /\ ~FingerUp(16) /\ ~FingerUp(20))
    => detected = Return("pointing")

\* C2: a frame of at least 21 landmarks whose thumb-tip to index-tip
\* distance is below 0.06 is classified 'pinch', whatever the four fingers do.
C2_PinchPrecedence ==
    (detected # Pending /\ FullFrame /\ PinchFrame)
    => detected = Return("pinch")

\* C2 witness: a pinch frame with three fingers extended has been classified.
C2_Witness ==
    /\ detected = Return("pinch")
    /\ FullFrame /\ PinchFrame
    /\ UpCount >= 3

C4_ShortIsNone ==
    (detected # Pending /\ ~FullFrame)
    => /\ detected = Return("none")
       /\ detectGestureReads(landmarks) = {}

\* C4 witness: a list of 20 points with thumb and index tip touching has
\* been classified 'none'.
C4_Witness ==
    /\ detected = Return("none")
    /\ landmarks.present /\ Len(landmarks.points) = 20
    /\ PinchFrame

----------------------------------------------------------------------------
(* useHandGesture: onResults, the callback the tracking library calls with *)
(* each result.  results.multiHandLandmarks is the sequence of the hands'  *)
(* landmark lists; the empty sequence stands for a missing or empty one.   *)

NoHandResults == [multiHandLandmarks |-> <<>>]
HandResults(lm) == [multiHandLandmarks |-> <<lm>>]

\* far from the index tip, so that no generated hand below is a pinch
FarThumb == Pt(10, McpY, 0)
Up == McpY - 10
Down == McpY + 10

\* one full frame per finger pattern, one pinch, and one frame of every
\* shorter length
FistFrame == MkFrame(21, FarThumb, Pt(50, Down, 0), Down, Down, Down)
IndexFrame == MkFrame(21, FarThumb, Pt(50, Up, 0), Down, Down, Down)
TwoFrame == MkFrame(21, FarThumb, Pt(50, Up, 0), Up, Down, Down)
OpenFrame == MkFrame(21, FarThumb, Pt(50, Up, 0), Up, Up, Up)
PinchedFrame == MkFrame(21, Pt(50, Up + 2, 0), Pt(50, Up, 0), Up, Up, Up)
ShortFrames ==
    {MkFrame(len, FarThumb, Pt(50, Up, 0), Up, Up, Up) : len \in 0..20}
LongFrames ==
    {MkFrame(len, FarThumb, Pt(50, Down, 0), Up, Up, Up) : len \in 22..MaxLandmarks}
TrackingResults ==
    {NoHandResults}
    \cup {HandResults(f) : f \in {FistFrame, IndexFrame, TwoFrame, OpenFrame,
                                   PinchedFrame}}
    \cup {HandResults(f) : f \in ShortFrames \cup LongFrames}

\* the handler raised: nothing it had not yet done happens
Raised(st, last) ==
    [raised |-> TRUE, state |-> st, lastGestureRef |-> last, notified |-> Null]

\* the change test of onResults without the write to lastGestureRef
ChangeNoRefUpdate(gesture, last) ==
    [lastGestureRef |-> last,
     notified |-> IF gesture # last THEN Some(gesture) ELSE Null]

\* if (gesture !== lastGestureRef.current) { ...; onGestureChange?.(gesture) }
Change(gesture, last) ==
    IF gesture # last
    THEN [lastGestureRef |-> gesture, notified |-> Some(gesture)]
    ELSE [lastGestureRef |-> last, notified |-> Null]

\* a result without a hand that also forgets the gesture
LostForgets(st, last) ==
    [raised |-> FALSE,
     state |-> [st EXCEPT !.isTracking = FALSE, !.handPosition = Null,
                          !.gesture = "none"],
     lastGestureRef |-> "none",
     notified |-> Null]

\* setState(prev => ({...prev, isTracking: false, handPosition: null}))
Lost(st, last) ==
    [raised |-> FALSE,
     state |-> [st EXCEPT !.isTracking = FALSE, !.handPosition = Null],
     lastGestureRef |-> last,
     notified |-> Null]

\* What one call of onResults does to the hook: the new state, the new
\* lastGestureRef, the gesture passed to onGestureChange (or Null), and
\* whether the call raised.
onResults(results, st, last) ==
    IF Len(results.multiHandLandmarks) > 0
    THEN LET lm == results.multiHandLandmarks[1]
             gesture == detectGesture(lm)
         IN IF gesture.raised THEN Raised(st, last)
            \* palmCenter.x of an undefined landmarks[9]
            ELSE IF Undefined(lm, 9) THEN Raised(st, last)
            ELSE LET palmCenter == At(lm, 9)
                     handPosition == [x |-> 100 - palmCenter.x, y |-> palmCenter.y]
                     pinchDistance == calculateFingerDistance(lm, 4, 8)
                     change == Change(gesture.value, last)
                 IN IF pinchDistance.raised THEN Raised(st, last)
                    ELSE [raised |-> FALSE,
                          state |-> [gesture |-> gesture.value,
                                     handPosition |-> Some(handPosition),
                                     pinchDistance |-> pinchDistance.value,
                                     isTracking |-> TRUE],
                          lastGestureRef |-> change.lastGestureRef,
                          notified |-> change.notified]
    ELSE Lost(st, last)

\* the run of consecutive results classified alike, after one more call
NextRun(r, out, last) ==
    LET n == IF out.notified # Null THEN 1 ELSE 0
    IN IF out.raised \/ ~out.state.isTracking THEN NoRun
       ELSE IF r.len > 0 /\ r.gesture = out.state.gesture
       THEN [r EXCEPT !.len = @ + 1, !.notifs = @ + n]
       ELSE [gesture |-> out.state.gesture, len |-> 1, prev |-> last, notifs |-> n]

InitHook ==
    /\ ClassifyIdle
    /\ HookIdle
    /\ PointerIdle
    /\ SceneIdle
    /\ OthersIdle

\* the tracking library delivers one result
OnResults(results) ==
    /\ nResults < MaxResults
    /\ LET out == onResults(results, state, lastGestureRef)
       IN /\ state' = out.state
          /\ lastGestureRef' = out.lastGestureRef
          /\ nResults' = nResults + 1
          /\ lastCall' = [results |-> results,
                          kind |-> IF Len(results.multiHandLandmarks) > 0
                                   THEN "hand" ELSE "nohand",
                          prev |-> lastGestureRef,
                          raised |-> out.raised,
                          notified |-> out.notified]
          /\ run' = NextRun(run, out, lastGestureRef)
    /\ UNCHANGED <<classifyVars, pointerVars, sceneVars, textureVars,
                   cameraVars, generatorVars>>

NextHook ==
    /\ \E results \in TrackingResults : OnResults(results)
    /\ UNCHANGED trackingVars

SpecHook == InitHook /\ [][NextHook]_vars

----------------------------------------------------------------------------
(* Claims about onResults, under SpecHook *)

\* the landmark list of the first hand of the last result
LastLandmarks == lastCall.results.multiHandLandmarks[1]

\* C5 (as claimed): a result whose first hand has 0 to 20 landmarks is
\* handled without raising and leaves gesture 'none' in the state.
C5_ShortFrameHandled ==
    (lastCall.kind = "hand" /\ Len(LastLandmarks.points) <= 20)
    => ~lastCall.raised /\ state.gesture = "none"

\* C6: a notification fires exactly on a result whose gesture differs from
\* the retained one, so a run of N >= 1 consecutive results of one gesture
\* (fist among them) has exactly one notification when the gesture retained
\* before the run was another one, and none otherwise.
C6_EdgeTriggered ==
    /\ run.len >= 1 => run.notifs = IF run.prev # run.gesture THEN 1 ELSE 0
    /\ lastCall.notified # Null
          => /\ lastCall.kind = "hand" /\ ~lastCall.raised
             /\ state.gesture # lastCall.prev
             /\ lastCall.notified = Some(state.gesture)
    /\ (lastCall.kind = "hand" /\ ~lastCall.raised /\ state.gesture # lastCall.prev)
          => lastCall.notified # Null

\* C6 witness: three consecutive fist results after another gesture, with
\* one notification.
C6_Witness ==
    /\ run.gesture = "fist" /\ run.len >= 3 /\ run.prev = "open"
    /\ run.notifs = 1

\* C24: a result without a hand sets isTracking to false and handPosition
\* to null and changes nothing else: gesture, pinchDistance and
\* lastGestureRef are kept and nothing is notified; and a hand result that
\* follows a result without a hand with the gesture kept through the loss
\* notifies nothing.
C24_LossKeepsGesture ==
    [][nResults' # nResults =>
          /\ lastCall'.kind = "nohand"
                => /\ state' = [state EXCEPT !.isTracking = FALSE,
                                             !.handPosition = Null]
                   /\ lastGestureRef' = lastGestureRef
                   /\ lastCall'.notified = Null
                   /\ ~lastCall'.raised
          /\ (/\ lastCall.kind = "nohand"
              /\ lastCall'.kind = "hand"
              /\ ~lastCall'.raised
              /\ state'.gesture = state.gesture)
                => lastCall'.notified = Null]_vars

\* C24 witness: the hand was lost after a fist; the fist is still the
\* gesture of the state and the last notified one.
C24_Witness ==
    /\ lastCall.kind = "nohand"
    /\ lastCall.notified = Null
    /\ ~state.isTracking
    /\ state.handPosition = Null
    /\ state.gesture = "fist"
    /\ lastGestureRef = "fist"

----------------------------------------------------------------------------
(* types/christmas.ts: useMouseFallback.  The window listeners exist while *)
(* enabled is true (the effect of lines 141-161), so every handler runs    *)
(* only then.  Pointer coordinates are whole pixels; a rotation is kept in *)
(* steps of 0.005 rad, the factor the handlers apply to a pixel delta.     *)
(* stateChange and orbitChange hold the callback calls of the step that    *)
(* led to the state, and presses.kind the press it handled, if any.        *)

\* window.innerWidth and window.innerHeight, in pixels
InnerWidth == 4
InnerHeight == 4

\* the points of the pointer events (clientX, clientY): they differ by 1 in
\* x and by 2 in y, so that the two axes cannot be confused
Points == {[x |-> 0, y |-> 0], [x |-> 1, y |-> 2]}

\* the double-press window of handleMouseDown and handleTouchStart, in ms
DoublePressMs == 300

\* the double-press test with <= for <
IsDoublePressInclusive(timeSinceLastClick) == timeSinceLastClick <= DoublePressMs

\* if (timeSinceLastClick < 300)
IsDoublePress(timeSinceLastClick) == timeSinceLastClick < DoublePressMs

\* a toggle that goes round the three modes
ToggleRound(mode) ==
    IF mode = "tree" THEN "galaxy" ELSE IF mode = "galaxy" THEN "focus" ELSE "tree"

\* currentState === 'tree' ? 'galaxy' : 'tree'
Toggle(mode) == IF mode = "tree" THEN "galaxy" ELSE "tree"

\* a press at time t continues the streak of presses each less than 300 ms
\* after the one before
Continues(h, t) == h.prevAt # Null /\ t - h.prevAt[1] < 300

\* the length of the streak with a press at time t
Streak(h, t) == IF Continues(h, t) THEN h.streak + 1 ELSE 1

\* the history after a press at time t; recorded: the press was stored in
\* lastClickRef (it did not toggle).  recordedKind is the kind of the press
\* in lastClickRef and againstKind the one this press was compared with;
\* toggled tells whether the last press toggled and afterToggle whether
\* the one before this press did; toggles counts the toggles of the
\* streak; held tells that the pointer is down
Pressed(h, kind, t, mode, recorded) ==
    [recordedAt |-> IF recorded THEN Some(t) ELSE Null,
     prevAt |-> Some(t),
     kind |-> kind,
     sinceRecorded |-> IF h.recordedAt = Null THEN Null ELSE Some(t - h.recordedAt[1]),
     sincePrev |-> IF h.prevAt = Null THEN Null ELSE Some(t - h.prevAt[1]),
     mode |-> mode,
     recordedKind |-> IF recorded THEN Some(kind) ELSE Null,
     againstKind |-> h.recordedKind,
     toggled |-> ~recorded,
     afterToggle |-> h.toggled,
     streak |-> Streak(h, t),
     toggles |-> (IF Continues(h, t) THEN h.toggles ELSE 0)
                    + (IF recorded THEN 0 ELSE 1),
     held |-> TRUE]

\* the history after a step that handled no press
NoPress(h) ==
    [h EXCEPT !.kind = "none", !.sinceRecorded = Null, !.sincePrev = Null,
              !.mode = "tree", !.againstKind = Null, !.afterToggle = FALSE]

\* the history after a release of the pointer
Released(h) == [NoPress(h) EXCEPT !.held = FALSE]

\* lastClickRef after a toggle, with the press kept as the last one
ConsumedNot(t) == t

\* lastClickRef.current = 0
Consumed(t) == 0

\* the body shared by handleMouseDown and handleTouchStart, for a press of
\* `kind` at point pt
Press(kind, pt) ==
    LET timeSinceLastClick == now - lastClickRef
    IN IF IsDoublePress(timeSinceLastClick)
       THEN /\ stateChange' = Some(Toggle(currentState))
            /\ lastClickRef' = Consumed(now)
            /\ presses' = Pressed(presses, kind, now, currentState, FALSE)
            /\ UNCHANGED <<isDragging, dragStartRef>>
       ELSE /\ lastClickRef' = now
            /\ isDragging' = TRUE
            /\ dragStartRef' = pt
            /\ presses' = Pressed(presses, kind, now, currentState, TRUE)
            /\ stateChange' = Null

\* the rotation after a drag from dragStartRef to pt
Rotated(pt) ==
    [x |-> rotationRef.x + (pt.y - dragStartRef.y),
     y |-> rotationRef.y + (pt.x - dragStartRef.x)]

InRange(rotation) ==
    /\ rotation.x \in -MaxRotation..MaxRotation
    /\ rotation.y \in -MaxRotation..MaxRotation

\* the drag branch shared by handleMouseMove and handleTouchMove
Drag(pt) ==
    /\ InRange(Rotated(pt))
    /\ rotationRef' = Rotated(pt)
    /\ orbitChange' = Some(Rotated(pt))
    /\ dragStartRef' = pt
    /\ galaxySum' = [x |-> galaxySum.x + (pt.y - dragStartRef.y),
                     y |-> galaxySum.y + (pt.x - dragStartRef.x)]

\* the branch of a move that does not orbit
NoDrag ==
    /\ orbitChange' = Null
    /\ UNCHANGED <<rotationRef, dragStartRef, galaxySum>>

\* the drag test without the mode
OrbitsInAnyMode(dragging, mode) == dragging

\* if (isDragging && currentState === 'galaxy')
Orbits(dragging, mode) == dragging /\ mode = "galaxy"

\* the move of `kind` to point pt, as the handler met it
Moved(kind, dragging, pt) ==
    Some([kind |-> kind, mode |-> currentState, dragging |-> dragging,
          before |-> rotationRef, anchor |-> dragStartRef, to |-> pt])

handleMouseDown(e) ==
    /\ enabled
    /\ Streak(presses, now) <= MaxStreak
    /\ Press("mousedown", e)
    /\ orbitChange' = Null
    /\ moves' = Null
    /\ UNCHANGED <<enabled, currentState, mousePosition, rotationRef, now,
                   galaxySum>>

handleMouseMove(e) ==
    /\ enabled
    /\ mousePosition' = [x |-> <<e.x, InnerWidth>>, y |-> <<e.y, InnerHeight>>]
    /\ IF Orbits(isDragging, currentState) THEN Drag(e) ELSE NoDrag
    /\ moves' = Moved("mousemove", isDragging, e)
    /\ stateChange' = Null
    /\ presses' = NoPress(presses)
    /\ UNCHANGED <<enabled, currentState, isDragging, lastClickRef, now>>

handleMouseUp ==
    /\ enabled
    /\ isDragging' = FALSE
    /\ stateChange' = Null
    /\ orbitChange' = Null
    /\ presses' = Released(presses)
    /\ moves' = Null
    /\ UNCHANGED <<enabled, currentState, mousePosition, lastClickRef,
                   dragStartRef, rotationRef, now, galaxySum>>

\* touches is the number of fingers down, e the point of the first
handleTouchStart(touches, e) ==
    /\ enabled /\ touches = 1
    /\ Streak(presses, now) <= MaxStreak
    /\ Press("touchstart", e)
    /\ orbitChange' = Null
    /\ moves' = Null
    /\ UNCHANGED <<enabled, currentState, mousePosition, rotationRef, now,
                   galaxySum>>

handleTouchMove(touches, e) ==
    /\ enabled
    /\ IF Orbits(isDragging /\ touches = 1, currentState)
       THEN Drag(e)
       ELSE NoDrag
    /\ moves' = Moved("touchmove", isDragging /\ touches = 1, e)
    /\ stateChange' = Null
    /\ presses' = NoPress(presses)
    /\ UNCHANGED <<enabled, currentState, isDragging, mousePosition,
                   lastClickRef, now>>

handleTouchEnd ==
    /\ enabled
    /\ isDragging' = FALSE
    /\ stateChange' = Null
    /\ orbitChange' = Null
    /\ presses' = Released(presses)
    /\ moves' = Null
    /\ UNCHANGED <<enabled, currentState, mousePosition, lastClickRef,
                   dragStartRef, rotationRef, now, galaxySum>>

\* a step of the surroundings: no handler runs, no callback is called
NoHandlerRan ==
    /\ stateChange' = Null
    /\ orbitChange' = Null
    /\ presses' = NoPress(presses)
    /\ moves' = Null
    /\ UNCHANGED galaxySum

\* the pointer goes down or up while the listeners are removed: no handler
\* runs
Unseen(down) ==
    /\ ~enabled
    /\ presses.held # down
    /\ presses' = [NoPress(presses) EXCEPT !.held = down]
    /\ stateChange' = Null
    /\ orbitChange' = Null
    /\ moves' = Null
    /\ UNCHANGED <<enabled, currentState, isDragging, mousePosition,
                   lastClickRef, dragStartRef, rotationRef, now, galaxySum>>

\* simulatedGesture: isDragging ? 'open' : 'none'
simulatedGesture == IF isDragging THEN "open" ELSE "none"

\* the parent renders the hook with another enabled prop
SetEnabled(b) ==
    /\ enabled # b
    /\ enabled' = b
    /\ NoHandlerRan
    /\ UNCHANGED <<currentState, isDragging, mousePosition, lastClickRef,
                   dragStartRef, rotationRef, now>>

\* a change of the currentState prop that clears the rotation
SetCurrentStateResetting(mode) ==
    /\ currentState # mode
    /\ currentState' = mode
    /\ NoHandlerRan
    /\ rotationRef' = [x |-> 0, y |-> 0]
    /\ UNCHANGED <<enabled, isDragging, mousePosition, lastClickRef,
                   dragStartRef, now>>

\* the parent renders the hook with another currentState prop
SetCurrentState(mode) ==
    /\ currentState # mode
    /\ currentState' = mode
    /\ NoHandlerRan
    /\ UNCHANGED <<enabled, isDragging, mousePosition, lastClickRef,
                   dragStartRef, rotationRef, now>>

\* time passes
Tick ==
    /\ now < StartTime + MaxTicks * TickMs
    /\ now' = now + TickMs
    /\ NoHandlerRan
    /\ UNCHANGED <<enabled, currentState, isDragging, mousePosition,
                   lastClickRef, dragStartRef, rotationRef>>

InitPointer ==
    /\ ClassifyIdle
    /\ HookIdle
    /\ PointerIdle
    /\ SceneIdle
    /\ OthersIdle

NextPointer ==
    /\ \/ \E e \in Points : handleMouseDown(e)
       \/ \E e \in Points : handleMouseMove(e)
       \/ handleMouseUp
       \/ \E e \in Points : handleTouchStart(1, e)
       \/ \E e \in Points : handleTouchMove(1, e)
       \/ handleTouchEnd
       \/ \E b \in BOOLEAN : SetEnabled(b)
       \/ \E down \in BOOLEAN : Unseen(down)
       \/ \E mode \in TreeState : SetCurrentState(mode)
       \/ Tick
    /\ UNCHANGED <<classifyVars, hookVars, sceneVars, trackingVars,
                   textureVars, cameraVars, generatorVars>>

SpecPointer == InitPointer /\ [][NextPointer]_vars

----------------------------------------------------------------------------
(* Claims about useMouseFallback, under SpecPointer *)

\* C7: a press handled less than 300 ms after the press recorded in
\* lastClickRef calls onStateChange with 'galaxy' in mode 'tree' and with
\* 'tree' in mode 'galaxy'; a press handled 300 ms or more after the
\* previous press calls nothing.
C7_DoublePressToggles ==
    presses.kind # "none" =>
       /\ (presses.sinceRecorded # Null /\ presses.sinceRecorded[1] < 300)
             => /\ presses.mode = "tree" => stateChange = Some("galaxy")
                /\ presses.mode = "galaxy" => stateChange = Some("tree")
       /\ (presses.sincePrev # Null /\ presses.sincePrev[1] >= 300)
             => stateChange = Null

\* C7 witness: a touch press 200 ms after a recorded mouse press has asked
\* for 'tree' in mode 'galaxy'.
C7_Witness ==
    /\ presses.kind = "touchstart"
    /\ presses.sinceRecorded = Some(200)
    /\ presses.mode = "galaxy"
    /\ stateChange = Some("tree")

\* the rotation a move adds: the pointer's way from the drag anchor to the
\* point of the move, x from the vertical and y from the horizontal way
Added(move) ==
    [x |-> move.to.y - move.anchor.y, y |-> move.to.x - move.anchor.x]

\* C13: a move handled during a drag in mode 'galaxy' adds its scaled
\* delta to the rotation and reports the new rotation through
\* onOrbitChange; a move in any other mode, or outside a drag, leaves the
\* rotation as it was and reports nothing.
C13_DragOrbitsInGalaxyOnly ==
    moves # Null =>
       IF moves[1].dragging /\ moves[1].mode = "galaxy"
       THEN /\ rotationRef.x = moves[1].before.x + Added(moves[1]).x
            /\ rotationRef.y = moves[1].before.y + Added(moves[1]).y
            /\ orbitChange = Some(rotationRef)
       ELSE /\ rotationRef = moves[1].before
            /\ orbitChange = Null

\* C13 witness: a touch move during a drag in mode 'tree', away from the
\* drag anchor, has left a rotation made earlier as it was and reported
\* nothing.
C13_Witness ==
    /\ moves # Null
    /\ moves[1].kind = "touchmove"
    /\ moves[1].dragging
    /\ moves[1].mode = "tree"
    /\ moves[1].to # moves[1].anchor
    /\ rotationRef # [x |-> 0, y |-> 0]
    /\ rotationRef = moves[1].before
    /\ orbitChange = Null

C26_TogglesWithinOneKind ==
    (presses.kind # "none" /\ stateChange # Null)
       => presses.againstKind = Some(presses.kind)

\* C27: the press after a press that toggled never toggles, and in a
\* streak of k presses, each less than 300 ms after the one before, the
\* presses have toggled floor(k / 2) times.
C27_ToggleConsumesPair ==
    /\ (presses.kind # "none" /\ presses.afterToggle) => stateChange = Null
    /\ presses.toggles = presses.streak \div 2

\* C27 witness: the third press of a streak follows the toggling second
\* press at the same instant and toggles nothing.
C27_Witness ==
    /\ presses.kind # "none"
    /\ presses.afterToggle
    /\ presses.sincePrev = Some(0)
    /\ presses.streak = 3
    /\ presses.toggles = 1
    /\ stateChange = Null

\* C28: while the hook is disabled, and while no press is held, isDragging
\* is false and simulatedGesture is 'none'; and a move handled while no
\* press is held leaves the rotation as it was.
C28_DraggingOnlyWhilePressed ==
    /\ (~enabled \/ ~presses.held)
          => (~isDragging /\ simulatedGesture = "none")
    /\ (moves # Null /\ ~presses.held) => rotationRef = moves[1].before

\* C30: only a press calls onStateChange, and it asks for 'galaxy' when
\* the mode is 'tree' and for 'tree' when the mode is any other one,
\* 'focus' included; it never asks for 'focus'.
C30_TogglesTreeGalaxyOnly ==
    stateChange # Null =>
       /\ presses.kind # "none"
       /\ stateChange # Some("focus")
       /\ presses.mode = "tree" => stateChange = Some("galaxy")
       /\ presses.mode # "tree" => stateChange = Some("tree")

\* C30 witness: a double press in mode 'focus' has asked for 'tree'.
C30_Witness ==
    /\ presses.kind # "none"
    /\ presses.mode = "focus"
    /\ presses.sinceRecorded # Null
    /\ presses.sinceRecorded[1] < 300
    /\ stateChange = Some("tree")

----------------------------------------------------------------------------
(* The scene: ParticleSystem.tsx and PhotoCards (GestureIndicator.tsx)     *)
(*                                                                         *)
(* The model follows one element of the scene: an ambient particle, a gem  *)
(* ornament (cube or icosahedron), an element of the tetrahedron spiral,   *)
(* or photo card 0.  The three coordinates of a position are animated      *)
(* independently and alike, by gsap (properties 0, 1, 2 of one tween) and  *)
(* by the spring (Vector3 arithmetic); the model follows coordinate 0, in  *)
(* units of 0.001, and scale in units of 0.001.  Arithmetic that the       *)
(* program does in floating point is done in these units, rounding toward  *)
(* zero.  The gsap ticker runs every 100 ms; tween delays and durations    *)
(* are in ticks.                                                           *)

Elements == {"particle", "gem", "tetra", "card"}
Tweened == {"particle", "gem", "tetra"}

Abs(n) == IF n < 0 THEN 0 - n ELSE n
Min(a, b) == IF a < b THEN a ELSE b

\* a / b rounded toward zero, b > 0
Quot(a, b) == IF a >= 0 THEN a \div b ELSE 0 - ((0 - a) \div b)

\* the animated object aliased to the stored tree target (no copy made)
PositionRefAliased == "treePosition"

\* the object that animations write: positionsRef.current[i] is a copy
\* [...p.treePosition], card.position a new Vector3(...photo.treePosition)
PositionRef == "position"

\* the element's objects after setup (particleData / photoData, the refs)
Setup ==
    [treePosition |-> TreePos, galaxyPosition |-> GalaxyPos,
     position |-> TreePos, velocity |-> 0]

\* state === 'tree' ? p.treePosition : p.galaxyPosition
ModeTarget(h, st) == IF st = "tree" THEN h.treePosition ELSE h.galaxyPosition

----------------------------------------------------------------------------
(* gsap.to(pos, {0: .., 1: .., 2: .., duration, ease, delay}).  gsap 3     *)
(* does not overwrite (overwrite: false is its default): every live tween  *)
(* of a target writes the target on every tick, in the order of the        *)
(* tweens' start times (creation time plus delay), tweens created earlier  *)
(* first among equal start times.  A tween reads its start value from the  *)
(* target when it first renders, and writes its end value when it ends.    *)

\* the samples of (delay, duration), in ticks of 100 ms:
\* particle: delay rand*0.3, duration 1.5 + rand*0.5
\* gem:      delay rand*0.2, duration 1.2
\* tetra:    delay rand*0.2, duration 1.3 + rand*0.4
Timings(el) ==
    IF el = "particle"
    THEN {[delay |-> 0, duration |-> 15], [delay |-> 2, duration |-> 19]}
    ELSE IF el = "gem"
    THEN {[delay |-> 0, duration |-> 12], [delay |-> 1, duration |-> 12]}
    ELSE {[delay |-> 0, duration |-> 13], [delay |-> 1, duration |-> 16]}

\* ease: state === 'tree' ? 'power2.inOut' : 'power2.out' for a particle,
\* 'power2.inOut' for the others
Ease(el, st) ==
    IF el = "particle" /\ st # "tree" THEN "power2.out" ELSE "power2.inOut"

Cube(n) == n * n * n

\* the eased progress of a tween at time t of duration d, times d^3
\* (gsap's power2 is the cubic)
Eased(ease, t, d) ==
    IF ease = "power2.out" THEN Cube(d) - Cube(d - t)
    ELSE IF 2 * t < d THEN 4 * Cube(t)
    ELSE Cube(d) - 4 * Cube(d - t)

\* the tween gsap.to creates: it has not rendered yet
NewTween(timing, end, ease) ==
    [elapsed |-> 0 - timing.delay, duration |-> timing.duration,
     start |-> Null, end |-> end, ease |-> ease]

\* the tween list with tw added, kept in render order
RECURSIVE AddTween(_, _)
AddTween(tws, tw) ==
    IF tws = <<>> \/ Head(tws).elapsed < tw.elapsed
    THEN <<tw>> \o tws
    ELSE <<Head(tws)>> \o AddTween(Tail(tws), tw)

\* one tween rendered on heap h: the heap and the tween afterwards
Started(tw, h) ==
    IF tw.start = Null THEN [tw EXCEPT !.start = Some(h[PositionRef])] ELSE tw

Value(tw) ==
    tw.start[1]
      + Quot((tw.end - tw.start[1])
                * Eased(tw.ease, Min(tw.elapsed, tw.duration), tw.duration),
             Cube(tw.duration))

\* the tweens rendered in order on heap h: the heap and the tweens that
\* are still live afterwards
RECURSIVE Render(_, _)
Render(tws, h) ==
    IF tws = <<>> THEN [heap |-> h, tweens |-> <<>>]
    ELSE LET tw == Head(tws)
         IN  IF tw.elapsed < 0
             THEN LET rest == Render(Tail(tws), h)
                  IN  [rest EXCEPT !.tweens = <<tw>> \o @]
             ELSE LET st == Started(tw, h)
                      h2 == [h EXCEPT ![PositionRef] = Value(st)]
                      rest == Render(Tail(tws), h2)
                  IN  IF st.elapsed >= st.duration
                      THEN rest
                      ELSE [rest EXCEPT !.tweens = <<st>> \o @]

\* every live tween one tick older
Older(tws) == [i \in 1..Len(tws) |-> [tws[i] EXCEPT !.elapsed = @ + 1]]

----------------------------------------------------------------------------
(* PhotoCards: the spring integration of useFrame, for card 0 *)

Card == 0

SPRING_STIFFNESS == 25
SPRING_DAMPING == 8
SCALE_STIFFNESS == 30
SCALE_DAMPING == 10

\* const dt = Math.min(delta, 0.033), in ms
DtMax == 33

\* the frame delta applied as it comes
DtUnclamped(delta) == delta

Dt(delta) == Min(delta, DtMax)

\* coordinate 0 of the focus point new THREE.Vector3(0, 0, 0.8)
FocusPos == 0
\* targetScale = isFocused ? 5 : 0.4, and the scale a card is created with
FocusScale == 5000
RestScale == 400

\* the focus test true of every card while any card is focused
IsFocusedAtAny(focus, i) == focus # Null

\* const isFocused = focusedIndex === i, for card i
IsFocusedAt(focus, i) == focus = Some(i)

\* const isFocused = focusedIndex === i
IsFocused(focus) == IsFocusedAt(focus, Card)

\* the focus test with the mode tested first: the focus point is used only
\* when the mode is not 'tree'
TargetPosModeFirst(h, st, focus) ==
    IF st = "tree" THEN h.treePosition
    ELSE IF IsFocused(focus) THEN FocusPos ELSE h.galaxyPosition

\* targetPos and targetScale of the frame
TargetPos(h, st, focus) ==
    IF IsFocused(focus) THEN FocusPos ELSE ModeTarget(h, st)
TargetScale(focus) == IF IsFocused(focus) THEN FocusScale ELSE RestScale

\* the cards of the scene: card 0 and another one
Cards == {Card, Card + 1}

\* what one run of the loop of useFrame uses: its delta and dt, the cards
\* whose isFocused is true, and targetPos and targetScale of card 0
Used(h, st, focus, delta) ==
    [delta |-> delta, dt |-> Dt(delta),
     focused |-> {i \in Cards : IsFocusedAt(focus, i)},
     targetPos |-> TargetPos(h, st, focus),
     targetScale |-> TargetScale(focus)]

\* the spring force alone, without the damping force
AccelerationUndamped(displacement, velocity, stiffness, damping) ==
    (0 - stiffness) * displacement

\* acceleration = displacement * -STIFFNESS + velocity * -DAMPING
Acceleration(displacement, velocity, stiffness, damping) ==
    (0 - stiffness) * displacement + (0 - damping) * velocity

\* velocity += acceleration * dt; position += velocity * dt (dt in ms)
Spring(position, velocity, target, stiffness, damping, dt) ==
    LET acceleration ==
            Acceleration(position - target, velocity, stiffness, damping)
        v == velocity + Quot(acceleration * dt, 1000)
    IN  [position |-> position + Quot(v * dt, 1000), velocity |-> v]

----------------------------------------------------------------------------
(* The actions of the scene *)

\* the props of the followed element change from (st, focus) to (st2,
\* focus2); a card's target changes only when the card is at rest
Retarget(st2, focus2) ==
    LET old == TargetPos(heap, sceneState, focusedIndex)
        new == TargetPos(heap, st2, focus2)
    IN  /\ sinceRetarget >= SettleMs
        /\ IF old = new
           THEN UNCHANGED <<sinceRetarget, errorAtRetarget, changes>>
           ELSE /\ changes < MaxRetargets
                /\ sinceRetarget' = 0
                /\ errorAtRetarget' = Abs(heap[PositionRef] - new)
                /\ changes' = changes + 1

\* the state prop changes: the effect of [state] starts a tween of the
\* element to the target of the new mode; the cards read state in useFrame
SetState(st) ==
    /\ st # sceneState
    /\ sceneState' = st
    /\ IF element \in Tweened
       THEN /\ changes < MaxChanges
            /\ changes' = changes + 1
            /\ \E timing \in Timings(element) :
                  tweens' = AddTween(tweens,
                                     NewTween(timing, ModeTarget(heap, st),
                                              Ease(element, st)))
            /\ UNCHANGED <<sinceRetarget, errorAtRetarget>>
       ELSE /\ Retarget(st, focusedIndex)
            /\ UNCHANGED tweens
    /\ frame' = Null
    /\ UNCHANGED <<element, focusedIndex, heap, scale, hitches, lastFocus>>

\* the focusedIndex prop changes (PhotoCards only)
SetFocus(focus) ==
    /\ element = "card"
    /\ focus # focusedIndex
    /\ focusedIndex' = focus
    /\ Retarget(sceneState, focus)
    /\ frame' = Null
    /\ lastFocus' = focusedIndex
    /\ UNCHANGED <<element, sceneState, heap, tweens, scale, hitches>>

\* one tick of gsap: every live tween renders
GsapTick ==
    /\ tweens # <<>>
    /\ LET rendered == Render(Older(tweens), heap)
       IN  /\ heap' = rendered.heap
           /\ tweens' = rendered.tweens
    /\ UNCHANGED <<element, sceneState, focusedIndex, scale, sinceRetarget,
                   errorAtRetarget, changes, hitches, frame, lastFocus>>

\* useFrame of PhotoCards, for card 0
Frame(delta) ==
    /\ element = "card"
    /\ delta > DtMax => hitches < MaxHitches
    /\ hitches' = IF delta > DtMax THEN hitches + 1 ELSE hitches
    /\ LET dt == Dt(delta)
           p == Spring(heap[PositionRef], heap.velocity,
                       TargetPos(heap, sceneState, focusedIndex),
                       SPRING_STIFFNESS, SPRING_DAMPING, dt)
           s == Spring(scale.scale, scale.scaleVelocity,
                       TargetScale(focusedIndex),
                       SCALE_STIFFNESS, SCALE_DAMPING, dt)
       IN  /\ heap' = [[heap EXCEPT !.velocity = p.velocity]
                          EXCEPT ![PositionRef] = p.position]
           /\ scale' = [scale |-> s.position, scaleVelocity |-> s.velocity]
           /\ sinceRetarget' = Min(sinceRetarget + dt, SettleMs)
    /\ frame' = Some(Used(heap, sceneState, focusedIndex, delta))
    /\ UNCHANGED <<element, sceneState, focusedIndex, tweens, errorAtRetarget,
                   changes, lastFocus>>

\* the frame deltas: a regular frame and a frame hitch
Deltas == {FrameMs, HitchMs}

\* the values of the focusedIndex prop: no card, card 0, another card
Focuses == {Null, Some(Card), Some(Card + 1)}

\* after mount: the element is at its tree target; the effect of [state]
\* has run once and started a tween to the tree target
InitScene ==
    /\ ClassifyIdle
    /\ HookIdle
    /\ PointerIdle
    /\ OthersIdle
    /\ element \in Elements
    /\ sceneState = "tree"
    /\ focusedIndex = Null
    /\ heap = Setup
    /\ IF element \in Tweened
       THEN \E timing \in Timings(element) :
               tweens = <<NewTween(timing, ModeTarget(Setup, "tree"),
                                   Ease(element, "tree"))>>
       ELSE tweens = <<>>
    /\ scale = [scale |-> RestScale, scaleVelocity |-> 0]
    /\ sinceRetarget = SettleMs
    /\ errorAtRetarget = 0
    /\ changes = 0
    /\ hitches = 0
    /\ frame = Null
    /\ lastFocus = Null
    /\ cardTime = 0
    /\ mesh = Null

\* the scene followed in coordinate 0 of the position: card.time, which
\* only enters coordinate 1 of the mesh, is followed by SpecMesh
NextScene ==
    /\ \/ \E st \in TreeState : SetState(st)
       \/ \E focus \in Focuses : SetFocus(focus)
       \/ GsapTick
       \/ \E delta \in Deltas : Frame(delta)
    /\ UNCHANGED <<cardTime, mesh>>
    /\ UNCHANGED <<classifyVars, hookVars, pointerVars, trackingVars,
                   textureVars, cameraVars, generatorVars>>

SpecScene == InitScene /\ [][NextScene]_vars

----------------------------------------------------------------------------
(* Claims about the scene, under SpecScene *)

\* C8: once every started position animation of a particle, gem or spiral
\* element has finished, the element rests at its stored target for the
\* current mode.
C8_RestsAtModeTarget ==
    (element \in Tweened /\ tweens = <<>>)
       => heap.position = ModeTarget(heap, sceneState)

\* C9: the stored tree target and galaxy target of an element keep their
\* setup values through every mode change, focus change, gsap tick and
\* frame update.
C9_TargetsKeepSetupValues ==
    /\ heap.treePosition = Setup.treePosition
    /\ heap.galaxyPosition = Setup.galaxyPosition

\* C9 witness: a particle after the round trip tree -> galaxy -> tree, its
\* animations finished, back at the tree target.
C9_Witness ==
    /\ element = "particle"
    /\ changes = 2
    /\ sceneState = "tree"
    /\ tweens = <<>>
    /\ heap.position = Setup.treePosition
    /\ heap.galaxyPosition = Setup.galaxyPosition

\* the card's position error against the target of its current props
PositionError == Abs(heap.position - TargetPos(heap, sceneState, focusedIndex))

C11_FrameTarget ==
    frame # Null =>
       IF focusedIndex = Some(Card)
       THEN /\ frame[1].targetPos = FocusPos
            /\ frame[1].targetScale = FocusScale
       ELSE /\ sceneState = "tree" => frame[1].targetPos = Setup.treePosition
            /\ sceneState # "tree" => frame[1].targetPos = Setup.galaxyPosition
            /\ frame[1].targetScale = RestScale

\* C11 witness: a frame of card 0, focused in mode 'tree', has used the
\* focus point and the large scale.
C11_Witness ==
    /\ frame # Null
    /\ focusedIndex = Some(Card)
    /\ sceneState = "tree"
    /\ frame[1].targetPos = FocusPos
    /\ frame[1].targetScale = FocusScale

\* C12: a frame uses the focus target for at most one card, the card that
\* focusedIndex names at that frame; a card that focusedIndex named before
\* the last change uses its mode target and the base scale again.
C12_FocusExclusive ==
    frame # Null =>
       /\ Cardinality(frame[1].focused) <= 1
       /\ \A i \in Cards : i \in frame[1].focused <=> focusedIndex = Some(i)
       /\ focusedIndex # Some(Card)
             => /\ frame[1].targetPos = ModeTarget(Setup, sceneState)
                /\ frame[1].targetScale = RestScale

\* C12 witness: focusedIndex has changed from card 1 to card 0, and the
\* next frame has used the focus target for card 0 only.
C12_Witness ==
    /\ frame # Null
    /\ lastFocus = Some(Card + 1)
    /\ focusedIndex = Some(Card)
    /\ frame[1].focused = {Card}
    /\ frame[1].targetPos = FocusPos

\* C21: every element is animated by the spring integration that carries
\* a velocity: a step that moves the element is a spring step from its
\* position and velocity toward the target of the current props, and a
\* mode or focus change leaves position and velocity as they are.
C21_SpringAnimatesEveryElement ==
    [][/\ (sceneState' # sceneState \/ focusedIndex' # focusedIndex)
             => heap' = heap
       /\ heap' # heap
             => \E delta \in Deltas :
                   LET p == Spring(heap.position, heap.velocity,
                                   TargetPos(heap, sceneState, focusedIndex),
                                   SPRING_STIFFNESS, SPRING_DAMPING,
                                   Dt(delta))
                   IN  heap' = [heap EXCEPT !.position = p.position,
                                            !.velocity = p.velocity]]_vars

\* C22: the frame just run has integrated position, velocity and scale of
\* the card over min(delta, 0.033 s), whatever its delta: the velocity has
\* gained the acceleration times that dt and the position the new velocity
\* times that dt.
C22_StepClamped ==
    [][frame' # Null =>
          LET delta == frame'[1].delta
              dt    == IF delta > DtMax THEN DtMax ELSE delta
              a     == (0 - SPRING_STIFFNESS)
                          * (heap.position - frame'[1].targetPos)
                       - SPRING_DAMPING * heap.velocity
              v     == heap.velocity + Quot(a * dt, 1000)
              sa    == (0 - SCALE_STIFFNESS)
                          * (scale.scale - frame'[1].targetScale)
                       - SCALE_DAMPING * scale.scaleVelocity
              sv    == scale.scaleVelocity + Quot(sa * dt, 1000)
          IN  /\ frame'[1].dt = dt
              /\ heap'.velocity = v
              /\ heap'.position = heap.position + Quot(v * dt, 1000)
              /\ scale'.scaleVelocity = sv
              /\ scale'.scale = scale.scale + Quot(sv * dt, 1000)]_vars

\* C22 witness: a frame hitch has hit the card in flight, and the frame
\* has used 0.033 s.
C22_Witness ==
    /\ frame # Null
    /\ frame[1].delta = HitchMs
    /\ frame[1].dt = DtMax
    /\ heap.velocity # 0
    /\ sinceRetarget < SettleMs

----------------------------------------------------------------------------
(* hooks/useHandGesture.ts: the effect of [enabled, onResults] that starts *)
(* tracking (initMediaPipe) and its cleanup.  Every run of the effect has  *)
(* its own `mounted` flag and its own call of initMediaPipe, which stops   *)
(* at each await; the refs are shared by all runs.  A video element and a  *)
(* camera are named by the run that made them.                             *)
(*                                                                         *)
(* camera.start() and camera.stop() belong to @mediapipe/camera_utils.    *)
(* start() asks for the capture device and resolves when the stream runs.  *)
(* stop() stops a running camera.  Whether stop() also calls off a start   *)
(* that has not resolved is not fixed by the hook: both outcomes are       *)
(* modelled.                                                               *)

\* where initMediaPipe of a run stands
Awaiting == {"importHands", "importCamera", "starting"}

\* the steps of initMediaPipe that can fail
Steps == {"importHands", "importCamera", "construct", "start"}

\* a try block that covers the two imports only
InTryImportsOnly(step) == step \in {"importHands", "importCamera"}

\* try { ... } catch (error) { console.warn(...) } around the whole body
InTry(step) == step \in Steps

\* the run that the effect starts: let mounted = true; initMediaPipe()
NewRun ==
    [mounted |-> TRUE, pc |-> "importHands", camera |-> "none", failed |-> Null]

\* the run after step `step` of its initMediaPipe has thrown or rejected
Failed(r, step) ==
    [r EXCEPT !.pc = IF InTry(step) THEN "caught" ELSE "uncaught",
              !.failed = Some(step),
              !.camera = IF @ = "starting" THEN "failed" ELSE @]

\* step `step` of run k fails
Fail(k, step) ==
    /\ runs' = [runs EXCEPT ![k] = Failed(@, step)]
    /\ warnings' = IF InTry(step) THEN warnings + 1 ELSE warnings
    /\ propagated' = (propagated \/ ~InTry(step))

\* camera.stop(): a running camera stops; a start that has not resolved is
\* called off or not
Stop(cam, cancels) ==
    IF cam = "running" THEN "stopped"
    ELSE IF cam = "starting" /\ cancels THEN "cancelled"
    ELSE cam

\* the effect runs with enabled true
Enable ==
    /\ ~trackEnabled
    /\ Len(runs) < MaxRuns
    /\ trackEnabled' = TRUE
    /\ runs' = Append(runs, NewRun)
    /\ UNCHANGED <<videoRef, handsRef, cameraRef, body, warnings, propagated>>

\* the cleanup of the current run: mounted = false; cameraRef.current
\* is stopped and videoRef.current removed, when they are set
Disable ==
    /\ trackEnabled
    /\ trackEnabled' = FALSE
    /\ \E cancels \in BOOLEAN :
          runs' = [k \in 1..Len(runs) |->
                     [runs[k] EXCEPT
                        !.mounted = IF k = Len(runs) THEN FALSE ELSE @,
                        !.camera = IF cameraRef = Some(k)
                                   THEN Stop(@, cancels) ELSE @]]
    /\ body' = IF videoRef = Null THEN body ELSE body \ {videoRef[1]}
    /\ UNCHANGED <<videoRef, handsRef, cameraRef, warnings, propagated>>

\* await import('@mediapipe/hands') resolves
HandsImported(k) ==
    /\ runs[k].pc = "importHands"
    /\ runs' = [runs EXCEPT ![k].pc = "importCamera"]
    /\ UNCHANGED <<trackEnabled, videoRef, handsRef, cameraRef, body, warnings,
                   propagated>>

\* await import('@mediapipe/camera_utils') resolves: if (!mounted) return;
\* else the video is made and appended, Hands and Camera are constructed
\* and camera.start() is called.  constructed: new Hands did not throw
CameraImported(k, constructed) ==
    /\ runs[k].pc = "importCamera"
    /\ trackEnabled' = trackEnabled
    /\ IF ~runs[k].mounted
       THEN /\ runs' = [runs EXCEPT ![k].pc = "returned"]
            /\ UNCHANGED <<videoRef, handsRef, cameraRef, body, warnings,
                           propagated>>
       ELSE /\ body' = body \cup {k}
            /\ videoRef' = Some(k)
            /\ IF constructed
               THEN /\ handsRef' = Some(k)
                    /\ cameraRef' = Some(k)
                    /\ runs' = [runs EXCEPT ![k].pc = "starting",
                                            ![k].camera = "starting"]
                    /\ UNCHANGED <<warnings, propagated>>
               ELSE /\ Fail(k, "construct")
                    /\ UNCHANGED <<handsRef, cameraRef>>

\* await camera.start() resolves: the camera runs, unless the start was
\* called off
StartResolved(k) ==
    /\ runs[k].pc = "starting"
    /\ runs' = [runs EXCEPT ![k].pc = "done",
                            ![k].camera = IF @ = "starting" THEN "running"
                                          ELSE @]
    /\ UNCHANGED <<trackEnabled, videoRef, handsRef, cameraRef, body, warnings,
                   propagated>>

\* an await of run k rejects
Rejected(k) ==
    /\ runs[k].pc \in Awaiting
    /\ Fail(k, IF runs[k].pc = "starting" THEN "start" ELSE runs[k].pc)
    /\ UNCHANGED <<trackEnabled, videoRef, handsRef, cameraRef, body>>

\* the results the tracker delivers while a camera runs: no hand, a fist,
\* an open hand
Delivered == {NoHandResults, HandResults(FistFrame), HandResults(OpenFrame)}

\* a running camera sends a frame (onFrame: handsRef.current and
\* videoRef.current are set) and the tracker answers with onResults
Deliver(results) ==
    /\ \E k \in 1..Len(runs) : runs[k].camera = "running"
    /\ handsRef # Null /\ videoRef # Null
    /\ OnResults(results)
    /\ UNCHANGED trackingVars

InitTracking ==
    /\ ClassifyIdle
    /\ HookIdle
    /\ PointerIdle
    /\ SceneIdle
    /\ OthersIdle

NextTracking ==
    \/ /\ \/ Enable
          \/ Disable
          \/ \E k \in 1..Len(runs) : HandsImported(k)
          \/ \E k \in 1..Len(runs), constructed \in BOOLEAN :
                CameraImported(k, constructed)
          \/ \E k \in 1..Len(runs) : StartResolved(k)
          \/ \E k \in 1..Len(runs) : Rejected(k)
       /\ UNCHANGED <<classifyVars, hookVars, pointerVars, sceneVars,
                      textureVars, cameraVars, generatorVars>>
    \/ \E results \in Delivered : Deliver(results)

SpecTracking == InitTracking /\ [][NextTracking]_vars

----------------------------------------------------------------------------
(* Claims about the tracking effect, under SpecTracking *)

\* C15: once tracking is disabled and no initMediaPipe is waiting at an
\* await any more, no camera is running and no injected video element is
\* left in the document.
C15_TeardownReleases ==
    (~trackEnabled /\ \A k \in 1..Len(runs) : runs[k].pc \notin Awaiting)
       => /\ \A k \in 1..Len(runs) : runs[k].camera # "running"
          /\ body = {}

\* the runs whose failure was caught
CaughtRuns == {k \in 1..Len(runs) : runs[k].pc = "caught"}

\* no camera has run so far
NeverRan == \A k \in 1..Len(runs) : runs[k].camera \notin {"running", "stopped"}

\* C16: every failure of a step of initMediaPipe is caught and logged with
\* one console.warn, none leaves the hook, and the step that fails leaves
\* the gesture state as it was; while no camera has run the state is the
\* initial one, with isTracking false.
C16_InitFailureCaught ==
    [][/\ ~propagated'
       /\ warnings' = Cardinality(CaughtRuns')
       /\ warnings' # warnings => state' = state
       /\ NeverRan' => state' = InitialState]_vars

\* C16 witness: camera.start() of the second run has been rejected after
\* the first run tracked a hand; the failure was caught and logged, and the
\* state still says isTracking.
C16_Witness ==
    /\ Len(runs) = 2
    /\ runs[1].camera = "stopped"
    /\ runs[2].failed = Some("start")
    /\ runs[2].pc = "caught"
    /\ warnings = 1
    /\ state.isTracking
    /\ ~propagated

\* C25: while tracking is disabled the state of the hook has isTracking
\* false and handPosition null.
C25_DisabledReportsNoHand ==
    ~trackEnabled => (~state.isTracking /\ state.handPosition = Null)

----------------------------------------------------------------------------
(* PhotoCards: the effect of [photoData] that builds cardDataRef.current   *)
(* and loads the textures (GestureIndicator.tsx, lines 201-261).  Cards    *)
(* are numbered from 1 here (card i of the model is index i - 1).  A load  *)
(* completes asynchronously, after the effect that started it has ended.   *)

Urls == {"a", "b"}

\* the url lists photoData can hold
PhotoLists ==
    UNION {[1..n -> Urls] : n \in 1..MaxPhotos}

\* the texture an image load yields, and the canvas placeholder (ctx: the
\* canvas gave a 2d context, so the placeholder is painted)
Image(url) == [kind |-> "image", url |-> url, painted |-> TRUE]
Placeholder(ctx) == [kind |-> "placeholder", url |-> "", painted |-> ctx]

\* the card data the effect builds for card i showing url, from
\* cards = cardDataRef.current as the previous effect left it
CardData(cards, i, url) ==
    LET exists == i <= Len(cards)
        urlChanged == ~exists \/ cards[i].textureUrl # url
    IN  [textureUrl |-> url,
         texture |-> IF urlChanged THEN Null ELSE cards[i].texture]

\* the loads the effect starts, in card order: one for every card whose
\* texture is null
RECURSIVE NewLoads(_, _)
NewLoads(cards, i) ==
    IF i > Len(cards) THEN <<>>
    ELSE (IF cards[i].texture = Null
          THEN <<[i |-> i, url |-> cards[i].textureUrl]>> ELSE <<>>)
         \o NewLoads(cards, i + 1)

\* sequence q without its element j
Without(q, j) == SubSeq(q, 1, j - 1) \o SubSeq(q, j + 1, Len(q))

\* an error callback that stores nothing
OnErrorNothing(card, ctx) == card

\* the error callback: the placeholder is stored for the card
OnError(card, ctx) == [card EXCEPT !.texture = Some(Placeholder(ctx))]

\* the load callback: the texture and its url are stored for the card
OnLoad(card, url) ==
    [card EXCEPT !.texture = Some(Image(url)), !.textureUrl = url]

\* the effect runs for photoData = urls
SetPhotos(urls) ==
    LET cards == [i \in 1..Len(urls) |-> CardData(cardDataRef, i, urls[i])]
        started == NewLoads(cards, 1)
    IN  /\ Len(loads) + Len(started) <= MaxLoads
        /\ photoData' = urls
        /\ cardDataRef' = cards
        /\ loads' = loads \o started
        /\ completed' = Null

\* load j completes: ok by the load callback, otherwise by the error
\* callback; both store only if (cardDataRef.current[i])
Complete(j, ok, ctx) ==
    LET load == loads[j]
        exists == load.i <= Len(cardDataRef)
    IN  /\ loads' = Without(loads, j)
        /\ cardDataRef' =
              IF ~exists THEN cardDataRef
              ELSE [cardDataRef EXCEPT ![load.i] =
                       IF ok THEN OnLoad(@, load.url) ELSE OnError(@, ctx)]
        /\ completed' = Some([i |-> load.i, url |-> load.url, ok |-> ok])
        /\ UNCHANGED photoData

InitTextures ==
    /\ ClassifyIdle
    /\ HookIdle
    /\ PointerIdle
    /\ SceneIdle
    /\ OthersIdle

NextTextures ==
    /\ \/ \E urls \in PhotoLists : SetPhotos(urls)
       \/ \E j \in 1..Len(loads), ok \in BOOLEAN, ctx \in BOOLEAN :
             Complete(j, ok, ctx)
    /\ UNCHANGED <<classifyVars, hookVars, pointerVars, sceneVars,
                   trackingVars, cameraVars, generatorVars>>

SpecTextures == InitTextures /\ [][NextTextures]_vars

----------------------------------------------------------------------------
(* Claims about the textures, under SpecTextures *)

\* the cards with a load still pending
Loading == {loads[j].i : j \in 1..Len(loads)}

\* C17: a card whose load has just completed has a texture, the canvas
\* placeholder if the load ended by error; and every card without a
\* pending load has a texture.
C17_CompletedLoadLeavesTexture ==
    /\ (completed # Null /\ completed[1].i <= Len(cardDataRef))
          => LET card == cardDataRef[completed[1].i]
             IN  /\ card.texture # Null
                 /\ ~completed[1].ok => card.texture[1].kind = "placeholder"
    /\ \A i \in 1..Len(cardDataRef) :
          i \notin Loading => cardDataRef[i].texture # Null

\* C17 witness: the load of card 2 has ended by error on a canvas without
\* a 2d context, and card 2 holds the placeholder.
C17_Witness ==
    /\ completed # Null
    /\ completed[1].i = 2
    /\ ~completed[1].ok
    /\ Len(cardDataRef) = 2
    /\ cardDataRef[2].texture = Some(Placeholder(FALSE))

\* C29: once every pending load has completed, each card holds the url
\* photoData gives it and a texture for that url: the image loaded from
\* it, or a placeholder.
C29_FinalTextureIsCurrent ==
    loads = <<>> =>
       \A i \in 1..Len(cardDataRef) :
          /\ cardDataRef[i].textureUrl = photoData[i]
          /\ cardDataRef[i].texture # Null
          /\ cardDataRef[i].texture[1].kind = "image"
                => cardDataRef[i].texture[1].url = photoData[i]

----------------------------------------------------------------------------
(* CameraController (src/unnamed/part_002): every frame computes a target
   from its props and moves the camera position toward it.  Lengths are in
   thousandths of a scene unit, hand coordinates in thousandths of the
   frame, angles in degrees at samples whose sine and cosine are known to
   three digits. *)

MaxCameraFrames == 2

\* the angles of the first quadrant whose sine is tabulated
Angles == {0, 18, 30, 36, 45, 54, 60, 72, 90}

SinTable(a) ==
    CASE a = 0  -> 0
      [] a = 18 -> 309
      [] a = 30 -> 500
      [] a = 36 -> 588
      [] a = 45 -> 707
      [] a = 54 -> 809
      [] a = 60 -> 866
      [] a = 72 -> 951
      [] a = 90 -> 1000

\* the sine of an angle of the first quadrant: the tabulated value, and
\* between two tabulated angles the value on the chord
SinQuadrant(a) ==
    IF a \in Angles THEN SinTable(a)
    ELSE LET lo == CHOOSE x \in Angles :
                      x < a /\ \A y \in Angles : y < a => y <= x
             hi == CHOOSE x \in Angles :
                      x > a /\ \A y \in Angles : y > a => x <= y
         IN  SinTable(lo)
                + Quot((SinTable(hi) - SinTable(lo)) * (a - lo), hi - lo)

\* Math.sin and Math.cos in thousandths, of an angle in degrees
Sin(a) ==
    LET r == a % 360
    IN  IF r <= 90 THEN SinQuadrant(r)
        ELSE IF r <= 180 THEN SinQuadrant(180 - r)
        ELSE IF r <= 270 THEN 0 - SinQuadrant(r - 180)
        ELSE 0 - SinQuadrant(360 - r)

Cos(a) == Sin(a + 90)

\* the props the controller is rendered with
CameraStates == {"tree", "galaxy", "focus"}

OrbitSamples == {[x |-> 0, y |-> 0], [x |-> 30, y |-> 90]}

HandSamples == {Null, Some([x |-> 250, y |-> 1000])}

CameraPropsSet ==
    [state : CameraStates, orbitRotation : OrbitSamples,
     handPosition : HandSamples]

BaseDistanceSwapped(st) == IF st = "tree" THEN 18 ELSE 12

\* const baseDistance = state === 'tree' ? 12 : 18
BaseDistance(st) == IF st = "tree" THEN 12 ELSE 18

\* if (handPosition && state === 'galaxy')
FollowsHand(props) == props.handPosition # Null /\ props.state = "galaxy"

\* targetX, targetY and targetZ of one frame
CameraTargetOf(props) ==
    LET d == BaseDistance(props.state)
        o == props.orbitRotation
    IN  [x |-> IF FollowsHand(props)
               THEN (props.handPosition[1].x - 500) * 20
               ELSE Sin(o.y) * d,
         y |-> IF FollowsHand(props)
               THEN (500 - props.handPosition[1].y) * 10 + 2000
               ELSE Sin(o.x) * 5 + 2000,
         z |-> Cos(o.y) * d]

\* 1 - Math.exp(-4 * delta) in thousandths, delta in milliseconds, by the
\* first five terms of the series of the exponential
SmoothFactor(delta) ==
    LET x  == 4 * delta
        t2 == Quot(x * x, 2000)
        t3 == Quot(t2 * x, 3000)
        t4 == Quot(t3 * x, 4000)
        t5 == Quot(t4 * x, 5000)
    IN  x - t2 + t3 - t4 + t5

\* positionRef.current.x += (targetX - positionRef.current.x) * smoothFactor
Toward(from, to, factor) == from + Quot((to - from) * factor, 1000)

\* the useFrame callback
CameraFrame(delta) ==
    /\ cameraFrames < MaxCameraFrames
    /\ LET t == CameraTargetOf(cameraProps)
           f == SmoothFactor(delta)
       IN  /\ cameraTarget' = Some(t)
           /\ cameraPosition' =
                 [x |-> Toward(cameraPosition.x, t.x, f),
                  y |-> Toward(cameraPosition.y, t.y, f),
                  z |-> Toward(cameraPosition.z, t.z, f)]
    /\ cameraFrames' = cameraFrames + 1
    /\ UNCHANGED cameraProps
    /\ UNCHANGED <<classifyVars, hookVars, pointerVars, sceneVars,
                   trackingVars, textureVars, generatorVars>>

\* the parent renders the controller with other props
Rerender(props) ==
    /\ props # cameraProps
    /\ cameraProps' = props
    /\ cameraTarget' = Null
    /\ UNCHANGED <<cameraPosition, cameraFrames>>
    /\ UNCHANGED <<classifyVars, hookVars, pointerVars, sceneVars,
                   trackingVars, textureVars, generatorVars>>

InitCamera ==
    /\ CameraIdle
    /\ ClassifyIdle
    /\ HookIdle
    /\ PointerIdle
    /\ SceneIdle
    /\ TrackingIdle
    /\ TexturesIdle
    /\ GeneratorsIdle

NextCamera ==
    \/ \E delta \in {FrameMs, HitchMs} : CameraFrame(delta)
    \/ \E props \in CameraPropsSet : Rerender(props)

SpecCamera == InitCamera /\ [][NextCamera]_vars

----------------------------------------------------------------------------
(* Claims about the camera, under SpecCamera *)

\* C18 as stated: in the frame just run, x and y of the target are the
\* hand's when a hand position is present in mode 'galaxy', and otherwise
\* both are a sine of OrbitRotation times the base distance, 12 in mode
\* 'tree' and 18 in any other mode.
C18_OrbitPointTimesBaseDistance ==
    cameraTarget # Null =>
       LET p == cameraProps
           t == cameraTarget[1]
           d == IF p.state = "tree" THEN 12 ELSE 18
       IN  IF p.handPosition # Null /\ p.state = "galaxy"
           THEN /\ t.x = (p.handPosition[1].x - 500) * 20
                /\ t.y = (500 - p.handPosition[1].y) * 10 + 2000
           ELSE /\ t.x = Sin(p.orbitRotation.y) * d
                /\ t.y = Sin(p.orbitRotation.x) * d

\* C18: in the frame just run, x and y of the target are the hand's when a
\* hand position is present in mode 'galaxy'; otherwise x is the sine of
\* OrbitRotation.y times the base distance, 12 in mode 'tree' and 18 in
\* any other mode, and y is the sine of OrbitRotation.x times 5 plus 2,
\* whatever the mode.
C18_TargetFromHandOrOrbit ==
    cameraTarget # Null =>
       LET p == cameraProps
           t == cameraTarget[1]
           d == IF p.state = "tree" THEN 12 ELSE 18
       IN  IF p.handPosition # Null /\ p.state = "galaxy"
           THEN /\ t.x = (p.handPosition[1].x - 500) * 20
                /\ t.y = (500 - p.handPosition[1].y) * 10 + 2000
           ELSE /\ t.x = Sin(p.orbitRotation.y) * d
                /\ t.y = Sin(p.orbitRotation.x) * 5 + 2000

\* C18 witness: a frame has run in mode 'focus' with a hand position
\* present, and its target is the orbit point at distance 18.
C18_Witness ==
    /\ cameraTarget # Null
    /\ cameraProps.state = "focus"
    /\ cameraProps.handPosition # Null
    /\ cameraProps.orbitRotation = [x |-> 30, y |-> 90]
    /\ cameraTarget[1] = [x |-> 18000, y |-> 4500, z |-> 0]

----------------------------------------------------------------------------
(* The formation generators (ParticleSystem.tsx, GestureIndicator.tsx).
   A generator is a function of its arguments and of the values Math.random
   returns during the call; a call yields one of its outcomes.  Lengths and
   random values are in thousandths, angles in degrees. *)

\* a point [x, y, z]
Point(x, y, z) == [x |-> x, y |-> y, z |-> z]

\* a thousandth part of a product of two values in thousandths
Times(a, b) == Quot(a * b, 1000)

\* Math.random() * Math.PI * 2: the values of Math.random that give a
\* quarter turn
TurnDraws == {0, 250, 500, 750}

Turn(r) == Quot(r * 360, 1000)

\* (index, total) of the calls
Inputs == {<<i, 4>> : i \in 0..3}

\* Math.pow(index / total, 0.8)
Pow08(index, total) ==
    LET q == Quot(index * 1000, total)
    IN  CASE q = 0   -> 0
          [] q = 250 -> 330
          [] q = 500 -> 574
          [] q = 750 -> 794

\* the values of Math.random drawn for radiusVariation
VariationDraws == {0, 500}

generateTreePosition(index, total, r1, r2) ==
    LET t           == Pow08(index, total)
        y           == t * 8 - 4000
        layerRadius == Times(3500, 1000 - Times(t, 950))
        angle       == Turn(r1)
        radius      == Times(layerRadius, 700 + Times(r2, 300))
    IN  Point(Times(Cos(angle), radius), y, Times(Sin(angle), radius))

\* the values of Math.random drawn for the angle of an ornament: 0.5 radian
\* times 0 and times 0.629, the latter 18 degrees
JitterDraws == {0, 629}

Jitter(r) == Quot(r * 28648, 1000000)

\* (index + 0.5) / total
Centred(index, total) == Quot((2 * index + 1) * 1000, 2 * total)

generateOrnamentPosition(index, total, r1) ==
    LET t           == Centred(index, total)
        y           == t * 7 - 3500
        layerRadius == Times(3200, 1000 - Times(t, 900))
        angle       == index * 432 + Jitter(r1)
    IN  Point(Times(Cos(angle), Times(layerRadius, 850)), y,
              Times(Sin(angle), Times(layerRadius, 850)))

generateRibbonPosition(index, total) ==
    LET t           == Quot(index * 1000, total)
        y           == Times(t, 7500) - 3750
        layerRadius == Times(3300, 1000 - Times(t, 920))
        angle       == Times(t, 1440)
    IN  Point(Times(Cos(angle), layerRadius), y,
              Times(Sin(angle), layerRadius))

generateTreePhotoPosition(index, total) ==
    LET t      == Centred(index, total)
        y      == t * 7 - 3500 + 500
        radius == Times(2800, 1000 - Times(t, 850))
        angle  == Times(t, 1800) + index * 90
    IN  Point(Times(Cos(angle), radius), y, Times(Sin(angle), radius))

\* the values of Math.random drawn for the radius of a galaxy position
RadiusDraws == {0, 500, 999}

\* the values of Math.random drawn for phi
PhiDraws == {0, 500}

\* Math.acos(2 * Math.random() - 1)
Acos(c) == CASE c = 0 - 1000 -> 180 [] c = 0 -> 90

CompressNot(v) == v

\* ... * 0.5
Compress(v) == Times(v, 500)

\* the body the two galaxy generators share: radius = inner + random * span
GalaxyPoint(inner, span, r1, r2, r3) ==
    LET radius == inner + Times(r1, span)
        theta  == Turn(r2)
        phi    == Acos(2 * r3 - 1000)
    IN  Point(Times(Times(radius, Sin(phi)), Cos(theta)),
              Compress(Times(Times(radius, Sin(phi)), Sin(theta))),
              Times(radius, Cos(phi)))

generateGalaxyPosition(r1, r2, r3) == GalaxyPoint(5000, 10000, r1, r2, r3)

generateGalaxyPhotoPosition(r1, r2, r3) == GalaxyPoint(4000, 6000, r1, r2, r3)

TreeGenerators ==
    {"generateTreePosition", "generateOrnamentPosition",
     "generateRibbonPosition", "generateTreePhotoPosition"}

GalaxyGenerators == {"generateGalaxyPosition", "generateGalaxyPhotoPosition"}

\* the calls: a generator and its arguments
Calls ==
    [gen : TreeGenerators, args : Inputs]
       \cup [gen : GalaxyGenerators, args : {<<>>}]

\* the positions a call can return, one for each course of Math.random
Outcomes(call) ==
    CASE call.gen = "generateTreePosition" ->
           {generateTreePosition(call.args[1], call.args[2], r1, r2) :
               r1 \in TurnDraws, r2 \in VariationDraws}
      [] call.gen = "generateOrnamentPosition" ->
           {generateOrnamentPosition(call.args[1], call.args[2], r1) :
               r1 \in JitterDraws}
      [] call.gen = "generateRibbonPosition" ->
           {generateRibbonPosition(call.args[1], call.args[2])}
      [] call.gen = "generateTreePhotoPosition" ->
           {generateTreePhotoPosition(call.args[1], call.args[2])}
      [] call.gen = "generateGalaxyPosition" ->
           {generateGalaxyPosition(r1, r2, r3) :
               r1 \in RadiusDraws, r2 \in TurnDraws, r3 \in PhiDraws}
      [] call.gen = "generateGalaxyPhotoPosition" ->
           {generateGalaxyPhotoPosition(r1, r2, r3) :
               r1 \in RadiusDraws, r2 \in TurnDraws, r3 \in PhiDraws}

\* a generator is called
Call(call) ==
    /\ genCall' = Some(call)
    /\ genFirst' \in {Some(p) : p \in Outcomes(call)}
    /\ genSecond' = Null
    /\ UNCHANGED <<classifyVars, hookVars, pointerVars, sceneVars,
                   trackingVars, textureVars, cameraVars>>

\* the generator is called again with the same arguments
CallAgain ==
    /\ genCall # Null
    /\ genSecond' \in {Some(p) : p \in Outcomes(genCall[1])}
    /\ UNCHANGED <<genCall, genFirst>>
    /\ UNCHANGED <<classifyVars, hookVars, pointerVars, sceneVars,
                   trackingVars, textureVars, cameraVars>>

InitGenerators ==
    /\ GeneratorsIdle
    /\ ClassifyIdle
    /\ HookIdle
    /\ PointerIdle
    /\ SceneIdle
    /\ TrackingIdle
    /\ TexturesIdle
    /\ CameraIdle

NextGenerators ==
    \/ \E call \in Calls : Call(call)
    \/ CallAgain

SpecGenerators == InitGenerators /\ [][NextGenerators]_vars

----------------------------------------------------------------------------
(* Claims about the generators, under SpecGenerators *)

\* C19: two calls of a tree-formation generator with the same
\* (index, total) return the same position.
C19_TreeGeneratorsDeterministic ==
    (/\ genCall # Null
     /\ genSecond # Null
     /\ genCall[1].gen \in TreeGenerators) => genSecond = genFirst

\* the radii of the shell a galaxy generator samples
Shell(gen) ==
    IF gen = "generateGalaxyPosition"
    THEN [inner |-> 5000, outer |-> 15000]
    ELSE [inner |-> 4000, outer |-> 10000]

\* the square of the distance of a point from the origin
Norm2(p) == p.x * p.x + p.y * p.y + p.z * p.z

\* the positions returned by the galaxy generator since its last call
Returned == {p[1] : p \in {genFirst, genSecond} \ {Null}}

\* C20 as stated: every position a galaxy generator returns lies at a
\* distance from the origin within [innerRadius, outerRadius].
C20_WithinShell ==
    (genCall # Null /\ genCall[1].gen \in GalaxyGenerators) =>
       \A p \in Returned :
          /\ Shell(genCall[1].gen).inner * Shell(genCall[1].gen).inner
                <= Norm2(p)
          /\ Norm2(p)
                <= Shell(genCall[1].gen).outer * Shell(genCall[1].gen).outer

\* C20: every position a galaxy generator returns is a point of the shell
\* [innerRadius, outerRadius] with its vertical coordinate halved: with y
\* doubled it lies within the shell, so its distance from the origin lies
\* within [innerRadius / 2, outerRadius].
C20_WithinCompressedShell ==
    (genCall # Null /\ genCall[1].gen \in GalaxyGenerators) =>
       \A p \in Returned :
          LET s == Shell(genCall[1].gen)
              q == Point(p.x, 2 * p.y, p.z)
          IN  /\ s.inner * s.inner <= Norm2(q)
              /\ Norm2(q) <= s.outer * s.outer
              /\ s.inner * s.inner <= 4 * Norm2(p)
              /\ Norm2(p) <= s.outer * s.outer

\* C20 witness: the particle generator has returned the point of radius 5
\* on the vertical axis, at distance 2.5 from the origin.
C20_Witness ==
    /\ genCall # Null
    /\ genCall[1].gen = "generateGalaxyPosition"
    /\ genFirst = Some(Point(0, 2500, 0))

----------------------------------------------------------------------------
(* PhotoCards: what useFrame writes to the mesh of card 0.  The mesh gets
   the card's position, and in coordinate 1 the sinusoidal offset
   Math.sin(card.time * 0.5) * 0.005 on top of it.  card.time starts at
   Math.random() * Math.PI * 2 seconds and gains dt with every frame. *)

\* the card.time up to which frames are followed
MaxCardTime == 3200

\* the values of card.time after setup
InitTimes == {3100, 3126}

\* card.time * 0.5, from ms to degrees
Phase(t) == Quot(t * 28648, 1000000)

\* Math.sin(card.time * 0.5) * 0.005
Sway(t) == Quot(Sin(Phase(t)) * 5, 1000)

\* meshGroup.position.copy(card.position); if (!isFocused)
\* meshGroup.position.y += ...: what the mesh has on top of card.position
Offset(focus, t) == IF IsFocused(focus) THEN 0 ELSE Sway(t)

\* useFrame of PhotoCards for card 0, with card.time and the mesh
MeshFrame(delta) ==
    /\ cardTime + Dt(delta) <= MaxCardTime
    /\ Frame(delta)
    /\ cardTime' = cardTime + Dt(delta)
    /\ mesh' = Some([focused |-> IsFocused(focusedIndex),
                     retargeted |-> sinceRetarget = 0,
                     offset |-> Offset(focusedIndex, cardTime')])

InitMesh ==
    /\ ClassifyIdle
    /\ HookIdle
    /\ PointerIdle
    /\ OthersIdle
    /\ element = "card"
    /\ sceneState = "tree"
    /\ focusedIndex = Null
    /\ heap = Setup
    /\ tweens = <<>>
    /\ scale = [scale |-> RestScale, scaleVelocity |-> 0]
    /\ sinceRetarget = SettleMs
    /\ errorAtRetarget = 0
    /\ changes = 0
    /\ hitches = 0
    /\ frame = Null
    /\ lastFocus = Null
    /\ cardTime \in InitTimes
    /\ mesh = Null

NextMesh ==
    /\ \/ /\ \E st \in TreeState : SetState(st)
          /\ mesh' = Null
          /\ UNCHANGED cardTime
       \/ /\ \E focus \in Focuses : SetFocus(focus)
          /\ mesh' = Null
          /\ UNCHANGED cardTime
       \/ \E delta \in Deltas : MeshFrame(delta)
    /\ UNCHANGED <<classifyVars, hookVars, pointerVars, trackingVars,
                   textureVars, cameraVars, generatorVars>>

SpecMesh == InitMesh /\ [][NextMesh]_vars

----------------------------------------------------------------------------
(* Claims about the mesh, under SpecMesh *)

\* C23: in a frame where card 0 is focused, or is unfocused with a target
\* that has changed since the frame before, the mesh has the card's
\* integrated position with no offset on top of it.
C23_NoSwayWhenFocusedOrRetargeted ==
    (mesh # Null /\ (mesh[1].focused \/ mesh[1].retargeted))
       => mesh[1].offset = 0

====
